---- MODULE Spec2Model ----
(***************************************************************************)
(* Behaviour of src/app.py: a script that builds a genai client, uploads   *)
(* a video, asks for a summary and a quiz, and prints the answer.          *)
(*                                                                         *)
(* Two specifications are given.                                           *)
(*                                                                         *)
(*   SpecFile  the file as the interpreter runs it (python app.py): the    *)
(*             module is compiled first, logical line by logical line.     *)
(*             Logical line 3 holds two simple statements that no ';'      *)
(*             separates, so the compile stops there with a SyntaxError    *)
(*             and no statement of the module is ever executed.            *)
(*                                                                         *)
(*   Spec      the statements of the module executed in textual order      *)
(*             (lines 1 to 20, the two statements of line 3 one after the  *)
(*             other): what the module body does once it is executed.      *)
(*             FairSpec is Spec with the interpreter's progress stated.    *)
(*                                                                         *)
(* The google-genai package is a third party's: a call into it is a step   *)
(* that is issued, stays in flight, and either returns a value, raises, or *)
(* never comes back.  Which of these happens is the environment's choice,  *)
(* fixed in `world`.                                                       *)
(***************************************************************************)
EXTENDS Naturals, Sequences, FiniteSets, TLC

VARIABLES
    world,      \* the environment of this run (packages, service replies)
    parsePos,   \* compile: index in Source of the next logical line to parse
    pc,         \* the interpreter's position
    client,     \* module global `client`   (Unbound or <<value>>)
    myfile,     \* module global `myfile`   (Unbound or <<handle>>)
    response,   \* module global `response` (Unbound or <<[text |-> t]>>)
    log,        \* the calls into the SDK and how each came back, in order
    stdout,     \* the characters written to standard output
    stderr,     \* the diagnostics written to standard error
    exitCode,   \* the process's exit status (Unbound while it runs)
    raised      \* the exception that reached the top level (Unbound or <<kind>>)

vars == <<world, parsePos, pc, client, myfile, response, log, stdout, stderr,
          exitCode, raised>>

---------------------------------------------------------------------------
\* Bounds of the model.

\* Longest generated text the service answers with.
MaxTextLen == 2

\* Number of distinct file handles the service may hand out.
NumHandles == 2

---------------------------------------------------------------------------
\* Literals of the source.

ApiKey == "GOOGLE_API_KEY"

VideoPath == "/Users/pranavharshans/All-proj/video-summary/videoplayback.mp4"

ModelName == "gemini-2.0-flash"

Prompt == "Summarize this video. Then create a quiz with an answer key based on the information in this video."

\* The logical lines of app.py: the physical lines each spans, the number of
\* simple statements on it and the number of ';' between them.
Source ==
    << [first |-> 1,  last |-> 1,  stmts |-> 1, semis |-> 0],
       [first |-> 3,  last |-> 3,  stmts |-> 2, semis |-> 0],
       [first |-> 4,  last |-> 4,  stmts |-> 1, semis |-> 0],
       [first |-> 5,  last |-> 5,  stmts |-> 1, semis |-> 0],
       [first |-> 6,  last |-> 6,  stmts |-> 1, semis |-> 0],
       [first |-> 7,  last |-> 7,  stmts |-> 1, semis |-> 0],
       [first |-> 8,  last |-> 8,  stmts |-> 1, semis |-> 0],
       [first |-> 9,  last |-> 9,  stmts |-> 1, semis |-> 0],
       [first |-> 12, last |-> 12, stmts |-> 1, semis |-> 0],
       [first |-> 14, last |-> 14, stmts |-> 1, semis |-> 0],
       [first |-> 16, last |-> 18, stmts |-> 1, semis |-> 0],
       [first |-> 20, last |-> 20, stmts |-> 1, semis |-> 0] >>

\* Third-party packages the imports need (the others are the standard library).
Packages == {"google-genai", "python-dotenv"}

---------------------------------------------------------------------------
\* Values.

Unbound == <<>>

Bound(v) == <<v>>

Value(var) == var[1]

Chars == {"q", "\n"}

Texts == UNION {[1..n -> Chars] : n \in 0..MaxTextLen}

Handles == {"files/" \o ToString(i) : i \in 1..NumHandles}

Ok == "ok"

Silent == "silent"

\* The kinds of exception a call may raise.  The script tells none of them
\* apart, so a kind is only a label that is carried to the traceback.
ClientFailures == {"ValueError"}

UploadFailures == {"NotFoundError", "UploadError"}

GenerateFailures == {"InvalidArgumentError", "RemoteServiceError"}

Worlds ==
    [installed   : SUBSET Packages,
     clientReply : {Ok} \cup ClientFailures,
     uploadReply : {Ok, Silent} \cup UploadFailures,
     genReply    : {Ok, Silent} \cup GenerateFailures,
     handle      : Handles,
     text        : Texts]

\* str(obj) of an object that is a str: the same characters.
Str(obj) == obj

\* What print(obj) writes: str(obj), then the line end.
Printed(obj) == Str(obj) \o <<"\n">>

\* A logical line parses when ';' separates its simple statements.
LineParses(l) == l.stmts <= l.semis + 1

Call(op, arg) == [ev |-> "call", op |-> op, data |-> arg]

Return(op, val) == [ev |-> "return", op |-> op, data |-> val]

Raised(op, kind) == [ev |-> "raise", op |-> op, data |-> kind]

---------------------------------------------------------------------------
\* Variant: a handler around the statement catches the exception, prints it
\* and lets the script end normally.
Caught(kind) ==
    /\ raised' = raised
    /\ stderr' = stderr
    /\ stdout' = Append(stdout, kind)
    /\ exitCode' = Bound(0)
    /\ pc' = "exited"
    /\ UNCHANGED <<client, myfile, response>>

\* An exception nothing catches: the traceback goes to standard error and
\* the process ends with status 1.  Nothing else changes.
Uncaught(kind) ==
    /\ raised' = Bound(kind)
    /\ stderr' = Append(stderr, kind)
    /\ exitCode' = Bound(1)
    /\ pc' = "exited"
    /\ UNCHANGED <<client, myfile, response, stdout>>

---------------------------------------------------------------------------
\* python app.py: the compile.

ParseLine ==
    /\ pc = "compile"
    /\ parsePos <= Len(Source)
    /\ LineParses(Source[parsePos])
    /\ parsePos' = parsePos + 1
    /\ pc' = IF parsePos = Len(Source) THEN "line1" ELSE "compile"
    /\ UNCHANGED <<world, client, myfile, response, log, stdout, stderr,
                   exitCode, raised>>

ReportSyntaxError ==
    /\ pc = "compile"
    /\ parsePos <= Len(Source)
    /\ ~LineParses(Source[parsePos])
    /\ Uncaught("SyntaxError")
    /\ UNCHANGED <<world, parsePos, log>>

InitFile ==
    /\ world \in Worlds
    /\ parsePos = 1
    /\ pc = "compile"
    /\ client = Unbound
    /\ myfile = Unbound
    /\ response = Unbound
    /\ log = <<>>
    /\ stdout = <<>>
    /\ stderr = <<>>
    /\ exitCode = Unbound
    /\ raised = Unbound

NextFile == ParseLine \/ ReportSyntaxError

SpecFile == InitFile /\ [][NextFile]_vars

---------------------------------------------------------------------------
\* The statements of the module.

\* line 1: from google import genai
import_genai ==
    /\ pc = "line1"
    /\ IF "google-genai" \in world.installed
         THEN /\ pc' = "line3"
              /\ UNCHANGED <<client, myfile, response, stdout, stderr,
                             exitCode, raised>>
         ELSE Uncaught("ModuleNotFoundError")
    /\ UNCHANGED <<world, parsePos, log>>

\* line 3, first statement: client = genai.Client(api_key="GOOGLE_API_KEY")
Client ==
    /\ pc = "line3"
    /\ IF world.clientReply = Ok
         THEN /\ client' = Bound([api_key |-> ApiKey])
              /\ log' = log \o <<Call("Client", [api_key |-> ApiKey]),
                                 Return("Client", [api_key |-> ApiKey])>>
              /\ pc' = "line4"
              /\ UNCHANGED <<myfile, response, stdout, stderr, exitCode,
                             raised>>
         ELSE /\ log' = log \o <<Call("Client", [api_key |-> ApiKey]),
                                 Raised("Client", world.clientReply)>>
              /\ Uncaught(world.clientReply)
    /\ UNCHANGED <<world, parsePos>>

\* line 3, second statement, to line 12: the imports
import_rest ==
    /\ pc = "line4"
    /\ IF Packages \subseteq world.installed
         THEN /\ pc' = "line14"
              /\ UNCHANGED <<client, myfile, response, stdout, stderr,
                             exitCode, raised>>
         ELSE Uncaught("ModuleNotFoundError")
    /\ UNCHANGED <<world, parsePos, log>>

\* Variant: the upload is started and not waited for; myfile is bound to the
\* handle at once and the script goes on.
upload_call_nowait ==
    /\ pc = "line14"
    /\ log' = Append(log, Call("upload", [client |-> Value(client),
                                         file |-> VideoPath]))
    /\ myfile' = Bound(world.handle)
    /\ pc' = "line16"
    /\ UNCHANGED <<world, parsePos, client, response, stdout, stderr,
                   exitCode, raised>>

\* line 14: client.files.upload(file=...) is called and blocks
upload_call ==
    /\ pc = "line14"
    /\ log' = Append(log, Call("upload", [client |-> Value(client),
                                         file |-> VideoPath]))
    /\ pc' = "uploading"
    /\ UNCHANGED <<world, parsePos, client, myfile, response, stdout,
                   stderr, exitCode, raised>>

\* line 14: the call returns and myfile is bound to what it returned
upload_return ==
    /\ pc = "uploading"
    /\ world.uploadReply = Ok
    /\ log' = Append(log, Return("upload", world.handle))
    /\ myfile' = Bound(world.handle)
    /\ pc' = "line16"
    /\ UNCHANGED <<world, parsePos, client, response, stdout, stderr,
                   exitCode, raised>>

\* Variant: a failed upload is tried again.
upload_retry ==
    /\ pc = "uploading"
    /\ world.uploadReply \in UploadFailures
    /\ log' = Append(log, Raised("upload", world.uploadReply))
    /\ pc' = "line14"
    /\ UNCHANGED <<world, parsePos, client, myfile, response, stdout,
                   stderr, exitCode, raised>>

\* Variant: the upload is given a timeout, and a silent service raises it.
upload_raise_or_timeout ==
    /\ pc = "uploading"
    /\ world.uploadReply \in UploadFailures \cup {Silent}
    /\ LET kind == IF world.uploadReply = Silent THEN "TimeoutError"
                   ELSE world.uploadReply
       IN /\ log' = Append(log, Raised("upload", kind))
          /\ Uncaught(kind)
    /\ UNCHANGED <<world, parsePos>>

\* line 14: the call raises
upload_raise ==
    /\ pc = "uploading"
    /\ world.uploadReply \in UploadFailures
    /\ log' = Append(log, Raised("upload", world.uploadReply))
    /\ Uncaught(world.uploadReply)
    /\ UNCHANGED <<world, parsePos>>

\* Variant: the parts of contents in the other order.
generate_content_call_prompt_first ==
    /\ pc = "line16"
    /\ log' = Append(log, Call("generate_content",
                               [client   |-> Value(client),
                                model    |-> ModelName,
                                contents |-> <<Prompt, Value(myfile)>>]))
    /\ pc' = "generating"
    /\ UNCHANGED <<world, parsePos, client, myfile, response, stdout,
                   stderr, exitCode, raised>>

\* lines 16-18: client.models.generate_content(model=..., contents=[myfile, "..."])
generate_content_call ==
    /\ pc = "line16"
    /\ log' = Append(log, Call("generate_content",
                               [client   |-> Value(client),
                                model    |-> ModelName,
                                contents |-> <<Value(myfile), Prompt>>]))
    /\ pc' = "generating"
    /\ UNCHANGED <<world, parsePos, client, myfile, response, stdout,
                   stderr, exitCode, raised>>

\* lines 16-18: the call returns and response is bound to what it returned
generate_content_return ==
    /\ pc = "generating"
    /\ world.genReply = Ok
    /\ log' = Append(log, Return("generate_content", world.text))
    /\ response' = Bound([text |-> world.text])
    /\ pc' = "line20"
    /\ UNCHANGED <<world, parsePos, client, myfile, stdout, stderr,
                   exitCode, raised>>

\* Variant: the generation is given a timeout, and a silent service raises it.
generate_content_raise_or_timeout ==
    /\ pc = "generating"
    /\ world.genReply \in GenerateFailures \cup {Silent}
    /\ LET kind == IF world.genReply = Silent THEN "TimeoutError"
                   ELSE world.genReply
       IN /\ log' = Append(log, Raised("generate_content", kind))
          /\ Uncaught(kind)
    /\ UNCHANGED <<world, parsePos>>

\* lines 16-18: the call raises
generate_content_raise ==
    /\ pc = "generating"
    /\ world.genReply \in GenerateFailures
    /\ log' = Append(log, Raised("generate_content", world.genReply))
    /\ Uncaught(world.genReply)
    /\ UNCHANGED <<world, parsePos>>

\* line 20: print(response.text)
print ==
    /\ pc = "line20"
    /\ stdout' = stdout \o Printed(Value(response).text)
    /\ pc' = "eof"
    /\ UNCHANGED <<world, parsePos, client, myfile, response, log, stderr,
                   exitCode, raised>>

\* the end of the module: the interpreter exits with status 0
exit_ok ==
    /\ pc = "eof"
    /\ exitCode' = Bound(0)
    /\ pc' = "exited"
    /\ UNCHANGED <<world, parsePos, client, myfile, response, log, stdout,
                   stderr, raised>>

Init ==
    /\ world \in Worlds
    /\ parsePos = Len(Source) + 1
    /\ pc = "line1"
    /\ client = Unbound
    /\ myfile = Unbound
    /\ response = Unbound
    /\ log = <<>>
    /\ stdout = <<>>
    /\ stderr = <<>>
    /\ exitCode = Unbound
    /\ raised = Unbound

Next ==
    \/ import_genai
    \/ Client
    \/ import_rest
    \/ upload_call
    \/ upload_return
    \/ upload_raise
    \/ generate_content_call
    \/ generate_content_return
    \/ generate_content_raise
    \/ print
    \/ exit_ok

Spec == Init /\ [][Next]_vars

\* The interpreter takes its next step whenever it has one.
FairSpec == Spec /\ WF_vars(Next)

---------------------------------------------------------------------------
\* What the log says.

RemoteOps == {"upload", "generate_content"}

CallsOf(op) == {i \in DOMAIN log : log[i].ev = "call" /\ log[i].op = op}

ReturnsOf(op) == {i \in DOMAIN log : log[i].ev = "return" /\ log[i].op = op}

RaisesOf(op) == {i \in DOMAIN log : log[i].ev = "raise" /\ log[i].op = op}

\* The remote requests issued and not yet answered.
InFlight ==
    {i \in DOMAIN log :
        /\ log[i].ev = "call"
        /\ log[i].op \in RemoteOps
        /\ \A j \in DOMAIN log :
              (j > i /\ log[j].op = log[i].op) => log[j].ev = "call"}

\* A call into the SDK has raised.
Failure == \E i \in DOMAIN log : log[i].ev = "raise"

\* A remote call is in flight and the service is never going to answer it.
Hangs ==
    \/ pc = "uploading" /\ world.uploadReply = Silent
    \/ pc = "generating" /\ world.genReply = Silent

\* The packages are installed, the client is built, and upload and generate
\* both succeed.
Healthy ==
    /\ world.installed = Packages
    /\ world.clientReply = Ok
    /\ world.uploadReply = Ok
    /\ world.genReply = Ok

---------------------------------------------------------------------------
\* C1: every generate request was issued after the upload call had returned
\* successfully, and its first part is the handle that upload returned; no
\* generate request exists while upload is unstarted, in flight or failed.
C1_GenerateOnlyAfterUploadReturned ==
    \A i \in CallsOf("generate_content") :
        /\ \E j \in ReturnsOf("upload") :
              j < i /\ log[j].data = log[i].data.contents[1]
        /\ \A j \in CallsOf("upload") :
              \E k \in ReturnsOf("upload") : j < k /\ k < i
        /\ RaisesOf("upload") = {}

C1_Witness_GenerateIssued ==
    /\ pc = "generating"
    /\ CallsOf("generate_content") # {}

\* C2: when the construction of the client, the upload or the generation
\* raises, nothing catches it: the raise is the last thing that happened, the
\* process has ended with status 1, the exception is the one on the
\* traceback, and standard output is empty.
C2_FailureAbortsRunSilently ==
    Failure =>
        /\ log[Len(log)].ev = "raise"
        /\ Cardinality({i \in DOMAIN log : log[i].ev = "raise"}) = 1
        /\ pc = "exited"
        /\ exitCode = Bound(1)
        /\ raised = Bound(log[Len(log)].data)
        /\ stdout = <<>>
        /\ response = Unbound
        /\ (RaisesOf("Client") # {} => CallsOf("upload") = {})
        /\ (RaisesOf("upload") # {} => CallsOf("generate_content") = {})

C2_Witness_GenerateFailed ==
    /\ RaisesOf("generate_content") # {}
    /\ ReturnsOf("upload") # {}

\* C3: when the process has ended, then if upload and generate both succeed
\* standard output holds the generated text, once, as print writes it (the
\* text, then the line end) and the exit status is 0; otherwise the exit
\* status is not 0.
C3_SuccessPrintsTextAndExitsZero ==
    pc = "exited" =>
        IF Healthy
          THEN stdout = world.text \o <<"\n">> /\ exitCode = Bound(0)
          ELSE exitCode # Unbound /\ exitCode # Bound(0)

\* C6: upload is requested at most once and generate at most once, each
\* request gets at most one answer, a return or a raise, and nothing is
\* requested after a raise.
C6_EachOperationAtMostOnceNoRetry ==
    /\ \A op \in RemoteOps :
          /\ Cardinality(CallsOf(op)) <= 1
          /\ Cardinality(ReturnsOf(op) \cup RaisesOf(op))
                <= Cardinality(CallsOf(op))
    /\ \A i \in DOMAIN log : log[i].ev = "raise" => i = Len(log)

C6_Witness_UploadFailedOnce ==
    /\ RaisesOf("upload") # {}
    /\ pc = "exited"

\* C8 as claimed: whenever a call is in flight and the service stays silent,
\* the call can fail with TimeoutError.
C8_SilentCallFailsWithTimeoutError ==
    Hangs => ENABLED (Next /\ raised' = Bound("TimeoutError"))

\* C8 as amended: no call is given a timeout.  While the service stays
\* silent the interpreter has no step to take, no exception is raised, and
\* no run ever ends in TimeoutError.
C8_SilentCallBlocksWithoutTimeout ==
    /\ Hangs => (~ENABLED Next /\ raised = Unbound /\ exitCode = Unbound)
    /\ raised # Bound("TimeoutError")

C8_Witness_UploadSilent ==
    /\ pc = "uploading"
    /\ world.uploadReply = Silent
    /\ Cardinality(InFlight) = 1

\* C9: the contents of the generate request are two parts in this order, the
\* handle the upload call returned and then the prompt; the request goes
\* through the client the upload went through; and once bound, client and
\* myfile never change.
C9_ContentsAreHandleThenPrompt ==
    /\ [](\A i \in CallsOf("generate_content") :
            /\ Len(log[i].data.contents) = 2
            /\ log[i].data.contents[1] = log[i - 1].data
            /\ log[i - 1].ev = "return" /\ log[i - 1].op = "upload"
            /\ log[i].data.contents[2] = Prompt
            /\ log[i].data.model = ModelName
            /\ \A j \in CallsOf("upload") :
                  log[j].data.client = log[i].data.client)
    /\ [][/\ client # Unbound => client' = client
          /\ myfile # Unbound => myfile' = myfile]_vars

C9_Witness_GenerateReturned ==
    /\ pc = "line20"
    /\ myfile = Bound(world.handle)
    /\ client = Bound([api_key |-> ApiKey])

\* C10: at most one remote request is in flight; a process that has ended
\* has none in flight; a call the service never answers keeps the process in
\* that call for ever, with nothing printed and no exit status; and every
\* run ends or comes to such a call.
C10_BlockingSingleRequest ==
    /\ [](Cardinality(InFlight) <= 1)
    /\ [](pc = "exited" => InFlight = {} /\ ~Hangs)
    /\ [](Hangs => [](Hangs /\ stdout = <<>> /\ exitCode = Unbound))
    /\ <>(pc = "exited" \/ Hangs)

C10_Witness_GenerateSilent ==
    /\ pc = "generating"
    /\ world.genReply = Silent
    /\ myfile # Unbound

====
